---- MODULE Spec2Model ----
(***************************************************************************)
(* Model of sisyphus.py: bulk upload of delimited files into SQL tables.   *)
(*                                                                         *)
(* The main thread (_main) resolves the load plan (_process_user_args),   *)
(* optionally runs a pre-script (_execute_sql), submits one _process_file *)
(* call per plan entry to a ThreadPoolExecutor, leaves the `with` block   *)
(* (which joins the pool), and optionally runs a post-script.             *)
(*                                                                         *)
(* File and table names are sequences of one-character strings, so that   *)
(* the regex search and the slicing of the file name are computed.        *)
(***************************************************************************)
EXTENDS Integers, Sequences, FiniteSets, TLC

(* ---------------------------- bounds ---------------------------------- *)
MaxTables == 2      \* longest explicit --tables list
MaxThreads == 2     \* largest --threads value
MaxRows == 2        \* most data rows in one file
MaxChunk == 2       \* largest --chunk-size value
MaxColumns == 2     \* most columns of a table given to the type conversion

(* ---------------------------- inputs ---------------------------------- *)
\* File names that may appear in the directory or in --tables.
FileA == <<"a", ".", "c">>
FileAA == <<"a", ".", "c", ".", "c">>
FileN == <<"n">>
FileNames == {FileA, FileAA, FileN}

TableA == <<"a">>
TableB == <<"b">>
TableUniverse == {TableA, TableB}

\* Contents of --data-dir: empty, one file, two files of the same table, and a
\* file next to one whose name the pattern does not match.
DirChoices == {{}, {FileA}, {FileA, FileAA}, {FileA, FileN}}

\* --regex-suffix: a literal pattern, searched anywhere in the file name.
regex_suffix == <<".", "c">>

\* All sequences over S of length at most n.
SeqsUpTo(S, n) == UNION {[1..k -> S] : k \in 0..n}

\* All orderings of a finite set (directory-listing order is unspecified).
Orderings(S) == {s \in [1..Cardinality(S) -> S] : \A i, j \in 1..Cardinality(S) : s[i] = s[j] => i = j}

VARIABLES
    pc,           \* position of the main thread in _main / _process_user_args
    error,        \* exception that ended _main and the position it was raised at
    user_args,    \* the argparse namespace (tables, switches, sizes)
    data_dir,     \* regular files present in --data-dir
    dbTables,     \* tables present in the destination database
    table_names,  \* the load plan: sequence of <<file_name, table_name>>
    catalog,      \* metadata.tables: names of the reflected tables
    reflects,     \* number of metadata.reflect calls made
    derived,      \* number of file names the regex was applied to
    tableChecks,  \* number of table-existence tests made
    scriptsRun,   \* scripts sent to the connection, in order
    preDone,      \* the _execute_sql call of the pre-script returned
    postStarted,  \* the _execute_sql call of the post-script was entered
    submitted,    \* file names passed to executor.submit, in order
    queue,        \* work items of the pool not yet taken by a worker
    status,       \* per file: "none", "queued", "running", "finished", "failed"
    rows_left,    \* per file: rows the reader has not yet yielded
    chunk_i,      \* per file: index i of the chunk being handled (chunks done so far)
    appended,     \* per table: the to_sql appends made, <<file, chunk, length>>
    in_append,    \* per file: rows of the chunk whose to_sql call is outstanding, else 0
    rows_total,   \* per file: data rows the file held when it was opened
    batch_lens,   \* per file: len(chunk) of every chunk the loop was entered with
    sql_type_column_dict,  \* column types of a table, as _process_file collects them
    dtype_column_dict      \* the dtype dict built from them, or the exception raised

vars == <<pc, error, user_args, data_dir, dbTables, table_names, catalog, reflects,
          derived, tableChecks, scriptsRun, preDone, postStarted, submitted, queue,
          status, rows_left, chunk_i, appended, in_append, rows_total, batch_lens,
          sql_type_column_dict, dtype_column_dict>>

dtypeVars == <<sql_type_column_dict, dtype_column_dict>>
resolveVars == <<table_names, catalog, reflects, derived, tableChecks>>
scriptVars == <<scriptsRun, preDone, postStarted>>
poolVars == <<submitted, queue, status, rows_left, chunk_i, appended, in_append, rows_total, batch_lens>>

(* ------------------------- pure helpers ------------------------------- *)
\* pattern p occurs in s at (1-based) position i
MatchAt(p, s, i) == i + Len(p) - 1 <= Len(s) /\ SubSeq(s, i, i + Len(p) - 1) = p

\* faulty variant: the position of the last match is taken
SearchLast(p, s) ==
    IF \E i \in 1..Len(s) : MatchAt(p, s, i)
    THEN CHOOSE i \in 1..Len(s) : MatchAt(p, s, i) /\ \A j \in (i + 1)..Len(s) : ~MatchAt(p, s, j)
    ELSE 0
\* regex.search(file_name): 1-based position of the first match, 0 for None
Search(p, s) ==
    IF \E i \in 1..Len(s) : MatchAt(p, s, i)
    THEN CHOOSE i \in 1..Len(s) : MatchAt(p, s, i) /\ \A j \in 1..(i - 1) : ~MatchAt(p, s, j)
    ELSE 0

\* file_name[:match.start()]
TableNameOf(s) == SubSeq(s, 1, Search(regex_suffix, s) - 1)

\* (data_dir / table).is_file()
IsFile(dir, f) == f \in dir

\* faulty variant: only the first entry of the list is tested
FirstMissingHeadOnly(dir, tables) == IF ~IsFile(dir, tables[1]) THEN 1 ELSE 0
\* index of the first entry of the --tables list that is not a file, 0 if none
FirstMissing(dir, tables) ==
    IF \E i \in 1..Len(tables) : ~IsFile(dir, tables[i])
    THEN CHOOSE i \in 1..Len(tables) : ~IsFile(dir, tables[i]) /\ \A j \in 1..(i - 1) : IsFile(dir, tables[j])
    ELSE 0

\* index of the first file name the regex does not match, 0 if none
FirstNoMatch(tables) ==
    IF \E i \in 1..Len(tables) : Search(regex_suffix, tables[i]) = 0
    THEN CHOOSE i \in 1..Len(tables) : Search(regex_suffix, tables[i]) = 0
                                       /\ \A j \in 1..(i - 1) : Search(regex_suffix, tables[j]) # 0
    ELSE 0

\* table_names[file_name] = table_name on a dict kept in insertion order:
\* a key already present keeps its place and takes the new value
DictPut(d, k, v) ==
    IF \E i \in 1..Len(d) : d[i][1] = k
    THEN [i \in 1..Len(d) |-> IF d[i][1] = k THEN <<k, v>> ELSE d[i]]
    ELSE Append(d, <<k, v>>)

RECURSIVE BuildTableNames(_, _)
BuildTableNames(tables, n) ==
    IF n = 0 THEN <<>>
    ELSE DictPut(BuildTableNames(tables, n - 1), tables[n], TableNameOf(tables[n]))

\* faulty variant: the membership test of line 150 never fails
FirstAbsentTableNone(plan, cat) == 0
\* index of the first plan entry whose table is not in metadata.tables, 0 if none
FirstAbsentTable(plan, cat) ==
    IF \E i \in 1..Len(plan) : plan[i][2] \notin cat
    THEN CHOOSE i \in 1..Len(plan) : plan[i][2] \notin cat /\ \A j \in 1..(i - 1) : plan[j][2] \in cat
    ELSE 0

\* the keys of the plan, and the value stored under a key
PlanFiles(plan) == {plan[i][1] : i \in 1..Len(plan)}
PlanTable(plan, f) == plan[CHOOSE i \in 1..Len(plan) : plan[i][1] = f][2]

Min(a, b) == IF a <= b THEN a ELSE b

(* ---------------------------- Init ------------------------------------ *)
Init ==
    /\ pc = "files"
    /\ error = [exc |-> "none", at |-> "none"]
    /\ data_dir \in DirChoices
    /\ dbTables \in {{TableA}, {TableB}}
    /\ user_args \in [tables : SeqsUpTo(FileNames, MaxTables),
                      execute_first : BOOLEAN,
                      execute_last : BOOLEAN,
                      dry_run : BOOLEAN,
                      threads : 0..MaxThreads,
                      chunk_size : 0..MaxChunk]
    /\ table_names = <<>>
    /\ catalog = {}
    /\ reflects = 0
    /\ derived = 0
    /\ tableChecks = 0
    /\ scriptsRun = <<>>
    /\ preDone = FALSE
    /\ postStarted = FALSE
    /\ submitted = <<>>
    /\ queue = <<>>
    /\ status = [f \in FileNames |-> "none"]
    /\ rows_left = [f \in FileNames |-> 0]
    /\ chunk_i = [f \in FileNames |-> 0]
    /\ appended = [t \in TableUniverse |-> <<>>]
    /\ in_append = [f \in FileNames |-> 0]
    /\ rows_total = [f \in FileNames |-> 0]
    /\ batch_lens = [f \in FileNames |-> <<>>]
    /\ sql_type_column_dict = <<>>
    /\ dtype_column_dict = [raised |-> FALSE, value |-> <<>>]

\* faulty variant: the error is logged and recorded but not raised
RaiseLoggedOnly(e) ==
    /\ error' = [exc |-> e, at |-> pc]
    /\ pc' = CASE pc = "files" -> "names"
              [] pc = "names" -> "connect"
              [] pc = "connect" -> "reflect"
              [] pc = "check" -> "pre"
              [] OTHER -> "submit"
\* _main has no try/except: an exception raised in the main thread ends it
Raise(e) == pc' = "failed" /\ error' = [exc |-> e, at |-> pc]

(* ------------------- _process_user_args (lines 79-155) ---------------- *)
\* lines 93-100: list the directory, or check that every named file exists
ObtainFileNames ==
    /\ pc = "files"
    /\ IF user_args.tables = <<>>
       THEN /\ \E order \in Orderings(data_dir) :
                 user_args' = [user_args EXCEPT !.tables = order]
            /\ pc' = "names"
            /\ error' = error
       ELSE /\ IF FirstMissing(data_dir, user_args.tables) # 0
               THEN Raise("FileNotFoundError")
               ELSE pc' = "names" /\ error' = error
            /\ user_args' = user_args
    /\ UNCHANGED <<dtypeVars, data_dir, dbTables, resolveVars, scriptVars, poolVars>>

\* lines 106-119: derive the table name of every file, first mismatch raises
ObtainTableNames ==
    /\ pc = "names"
    /\ LET bad == FirstNoMatch(user_args.tables) IN
       IF bad # 0
       THEN /\ Raise("ValueError: no regex match")
            /\ derived' = bad - 1
            /\ table_names' = table_names
       ELSE /\ pc' = "connect"
            /\ error' = error
            /\ derived' = Len(user_args.tables)
            /\ table_names' = BuildTableNames(user_args.tables, Len(user_args.tables))
    /\ UNCHANGED <<dtypeVars, user_args, data_dir, dbTables, catalog, reflects, tableChecks, scriptVars, poolVars>>

\* lines 134-139: the connection test succeeds
ConnectOk ==
    /\ pc = "connect"
    /\ pc' = "reflect"
    /\ UNCHANGED <<dtypeVars, error, user_args, data_dir, dbTables, resolveVars, scriptVars, poolVars>>

\* lines 134-139: the destination cannot be reached
ConnectFail ==
    /\ pc = "connect"
    /\ Raise("OperationalError")
    /\ UNCHANGED <<dtypeVars, user_args, data_dir, dbTables, resolveVars, scriptVars, poolVars>>

\* metadata.reflect: tables of the database that the MetaData does not hold yet
\* are loaded; tables it already holds are kept as they are
ReflectInto(cat, db) == cat \cup db

\* lines 143-145: a fresh MetaData is filled by reflection
ReflectMetadata ==
    /\ pc = "reflect"
    /\ catalog' = ReflectInto({}, dbTables)
    /\ reflects' = reflects + 1
    /\ pc' = "check"
    /\ UNCHANGED <<dtypeVars, error, user_args, data_dir, dbTables, table_names, derived, tableChecks, scriptVars, poolVars>>

\* lines 149-153: every derived table must be in metadata.tables
CheckTables ==
    /\ pc = "check"
    /\ LET bad == FirstAbsentTable(table_names, catalog) IN
       IF bad # 0
       THEN Raise("ValueError: table not found") /\ tableChecks' = bad
       ELSE pc' = "pre" /\ error' = error /\ tableChecks' = Len(table_names)
    /\ UNCHANGED <<dtypeVars, user_args, data_dir, dbTables, table_names, catalog, reflects, derived, scriptVars, poolVars>>

(* ----------------------- _execute_sql (lines 200-220) ------------------ *)
\* faulty variant: the dry_run test of line 209 is missing
SkipsExecutionNever(dry_run) == FALSE
\* line 209: a dry run returns before the connection is opened
SkipsExecution(dry_run) == dry_run

\* what a script may do to the database: nothing visible, create or drop a table
ScriptEffects(db) == {db, db \cup {TableB}, db \ {TableA}}

\* faulty variant: the exception is caught and _main goes on
ScriptErrorSwallowed(next) == next
\* lines 213-216 raise: nothing in _execute_sql or _main catches it
ScriptErrorTarget(next) == "failed"

\* faulty variant: lines 218-220 are missing, the script runs without a reflect
ExecuteSqlNoReflect(script, at, next) ==
    /\ pc = at
    /\ postStarted' = (postStarted \/ script = "last")
    /\ \/ /\ user_args.dry_run
          /\ pc' = next
          /\ preDone' = (preDone \/ script = "first")
          /\ UNCHANGED <<error, dbTables, catalog, reflects, scriptsRun>>
       \/ /\ ~user_args.dry_run
          /\ \E db \in ScriptEffects(dbTables) : dbTables' = db
          /\ scriptsRun' = Append(scriptsRun, script)
          /\ pc' = next
          /\ preDone' = (preDone \/ script = "first")
          /\ UNCHANGED <<error, catalog, reflects>>
       \/ /\ ~user_args.dry_run
          /\ pc' = "failed"
          /\ error' = [exc |-> "ScriptError", at |-> at]
          /\ UNCHANGED <<dbTables, catalog, reflects, scriptsRun, preDone>>
    /\ UNCHANGED <<dtypeVars, user_args, data_dir, table_names, derived, tableChecks, poolVars>>

\* faulty variant: the dry-run test only guards conn.execute, the reflect still runs
ExecuteSqlDryReflect(script, at, next) ==
    /\ pc = at
    /\ postStarted' = (postStarted \/ script = "last")
    /\ \/ /\ user_args.dry_run
          /\ pc' = next
          /\ preDone' = (preDone \/ script = "first")
          /\ catalog' = ReflectInto(catalog, dbTables)
          /\ reflects' = reflects + 1
          /\ UNCHANGED <<error, dbTables, scriptsRun>>
       \/ /\ ~user_args.dry_run
          /\ \E db \in ScriptEffects(dbTables) :
                /\ dbTables' = db
                /\ catalog' = ReflectInto(catalog, db)
          /\ scriptsRun' = Append(scriptsRun, script)
          /\ reflects' = reflects + 1
          /\ pc' = next
          /\ preDone' = (preDone \/ script = "first")
          /\ error' = error
       \/ /\ ~user_args.dry_run
          /\ pc' = "failed"
          /\ error' = [exc |-> "ScriptError", at |-> at]
          /\ UNCHANGED <<dbTables, catalog, reflects, scriptsRun, preDone>>
    /\ UNCHANGED <<dtypeVars, user_args, data_dir, table_names, derived, tableChecks, poolVars>>

\* _execute_sql(script) called at position `at`, returning to position `next`
ExecuteSql(script, at, next) ==
    /\ pc = at
    /\ postStarted' = (postStarted \/ script = "last")
    /\ \/ /\ SkipsExecution(user_args.dry_run)
          /\ pc' = next
          /\ preDone' = (preDone \/ script = "first")
          /\ UNCHANGED <<error, dbTables, catalog, reflects, scriptsRun>>
       \/ /\ ~SkipsExecution(user_args.dry_run)
          /\ \E db \in ScriptEffects(dbTables) :
                /\ dbTables' = db
                /\ catalog' = ReflectInto(catalog, db)
          /\ scriptsRun' = Append(scriptsRun, script)
          /\ reflects' = reflects + 1
          /\ pc' = next
          /\ preDone' = (preDone \/ script = "first")
          /\ error' = error
       \/ /\ ~SkipsExecution(user_args.dry_run)
          /\ pc' = ScriptErrorTarget(next)
          /\ error' = [exc |-> "ScriptError", at |-> at]
          /\ UNCHANGED <<dbTables, catalog, reflects, scriptsRun, preDone>>
    /\ UNCHANGED <<dtypeVars, user_args, data_dir, table_names, derived, tableChecks, poolVars>>

(* ----------------------------- _main ---------------------------------- *)
\* line 28 with an empty execute_first
NoPreScript ==
    /\ pc = "pre"
    /\ ~user_args.execute_first
    /\ pc' = "pool"
    /\ UNCHANGED <<dtypeVars, error, user_args, data_dir, dbTables, resolveVars, scriptVars, poolVars>>

\* lines 28-29
PreScript == user_args.execute_first /\ ExecuteSql("first", "pre", "pool")

\* line 32: ThreadPoolExecutor(max_workers) rejects max_workers <= 0
CreatePool ==
    /\ pc = "pool"
    /\ IF user_args.threads <= 0
       THEN Raise("ValueError: max_workers")
       ELSE pc' = "submit" /\ error' = error
    /\ UNCHANGED <<dtypeVars, user_args, data_dir, dbTables, resolveVars, scriptVars, poolVars>>

\* faulty variant: the loop stops one entry early
AllSubmittedEarly(plan, sub) == Len(sub) >= Len(plan) - 1
\* line 33: the loop over table_names.items() has passed every entry
AllSubmitted(plan, sub) == Len(sub) >= Len(plan)

\* lines 33-34: one executor.submit per pass of the loop
Submit ==
    /\ pc = "submit"
    /\ ~AllSubmitted(table_names, submitted)
    /\ LET f == table_names[Len(submitted) + 1][1] IN
          /\ submitted' = Append(submitted, f)
          /\ queue' = Append(queue, f)
          /\ status' = [status EXCEPT ![f] = "queued"]
    /\ UNCHANGED <<dtypeVars, pc, error, user_args, data_dir, dbTables, resolveVars, scriptVars,
                   rows_left, chunk_i, appended, in_append, rows_total, batch_lens>>

Running == {f \in FileNames : status[f] = "running"}

\* faulty variant: a thread per work item, max_workers ignored
WorkerFreeAlways(running, threads) == TRUE
\* faulty variant: the comparison with max_workers is reversed
WorkerFreeInverted(running, threads) == Cardinality(running) > threads
\* the pool runs at most max_workers work items at a time
WorkerFree(running, threads) == Cardinality(running) < threads

\* faulty variants: shutdown(wait=False); waiting for the queue only
PoolDrainedNoWait(q, st) == TRUE
PoolDrainedQueueOnly(q, st) == q = <<>>
\* leaving the `with` block is shutdown(wait=True): it returns once no work
\* item is pending or running
PoolDrained(q, st) == q = <<>> /\ \A f \in FileNames : st[f] # "running"

\* line 32, end of the `with` block
ExitPool ==
    /\ pc = "submit"
    /\ AllSubmitted(table_names, submitted)
    /\ PoolDrained(queue, status)
    /\ pc' = "post"
    /\ UNCHANGED <<dtypeVars, error, user_args, data_dir, dbTables, resolveVars, scriptVars, poolVars>>

\* line 36 with an empty execute_last
NoPostScript ==
    /\ pc = "post"
    /\ ~user_args.execute_last
    /\ pc' = "done"
    /\ UNCHANGED <<dtypeVars, error, user_args, data_dir, dbTables, resolveVars, scriptVars, poolVars>>

\* lines 36-37
PostScript == user_args.execute_last /\ ExecuteSql("last", "post", "done")

(* ---------------------- _process_file (lines 157-197) ----------------- *)
mainVars == <<pc, error, user_args, data_dir, dbTables, resolveVars, scriptVars>>

\* lines 170 and 177: metadata.tables[table_name] raises KeyError for a table
\* the catalog does not hold, read_csv raises ValueError for chunksize < 1
CannotOpen(f) == PlanTable(table_names, f) \notin catalog \/ user_args.chunk_size < 1

\* a worker takes the oldest work item; lines 165-183 succeed
StartTask ==
    /\ queue # <<>>
    /\ WorkerFree(Running, user_args.threads)
    /\ ~CannotOpen(Head(queue))
    /\ \E n \in 0..MaxRows :
          /\ rows_left' = [rows_left EXCEPT ![Head(queue)] = n]
          /\ rows_total' = [rows_total EXCEPT ![Head(queue)] = n]
    /\ status' = [status EXCEPT ![Head(queue)] = "running"]
    /\ queue' = Tail(queue)
    /\ UNCHANGED <<dtypeVars, mainVars, submitted, chunk_i, appended, in_append, batch_lens>>

\* a worker takes the oldest work item; lines 165-183 raise
StartTaskFail ==
    /\ queue # <<>>
    /\ WorkerFree(Running, user_args.threads)
    /\ status' = [status EXCEPT ![Head(queue)] = "failed"]
    /\ queue' = Tail(queue)
    /\ UNCHANGED <<dtypeVars, mainVars, submitted, rows_left, chunk_i, appended, in_append, rows_total, batch_lens>>

\* faulty variant: chunksize is not passed, the reader yields the whole file
ChunkLenAll(left, chunk_size) == left
\* len(chunk) of the next chunk
ChunkLen(left, chunk_size) == Min(left, chunk_size)

\* faulty variant: the next chunk is sent without waiting for to_sql to return
ProcessChunkNoWait(f) ==
    /\ status[f] = "running"
    /\ rows_left[f] > 0
    /\ LET n == Min(rows_left[f], user_args.chunk_size) IN
          /\ rows_left' = [rows_left EXCEPT ![f] = @ - n]
          /\ batch_lens' = [batch_lens EXCEPT ![f] = Append(@, n)]
          /\ IF user_args.dry_run
             THEN chunk_i' = [chunk_i EXCEPT ![f] = @ + 1] /\ in_append' = in_append
             ELSE chunk_i' = chunk_i /\ in_append' = [in_append EXCEPT ![f] = n]
    /\ UNCHANGED <<dtypeVars, mainVars, submitted, queue, status, appended, rows_total>>

\* lines 185-190: the reader yields the next chunk, its length is logged; a dry
\* run goes on to the next pass, otherwise chunk.to_sql is called
ProcessChunk(f) ==
    /\ status[f] = "running"
    /\ in_append[f] = 0
    /\ rows_left[f] > 0
    /\ LET n == ChunkLen(rows_left[f], user_args.chunk_size) IN
          /\ rows_left' = [rows_left EXCEPT ![f] = @ - n]
          /\ batch_lens' = [batch_lens EXCEPT ![f] = Append(@, n)]
          /\ IF user_args.dry_run
             THEN chunk_i' = [chunk_i EXCEPT ![f] = @ + 1] /\ in_append' = in_append
             ELSE chunk_i' = chunk_i /\ in_append' = [in_append EXCEPT ![f] = n]
    /\ UNCHANGED <<dtypeVars, mainVars, submitted, queue, status, appended, rows_total>>

\* lines 190-197: chunk.to_sql returns, the chunk is in the table
AppendReturn(f) ==
    /\ status[f] = "running"
    /\ in_append[f] > 0
    /\ appended' = [appended EXCEPT ![PlanTable(table_names, f)] = Append(@, <<f, chunk_i[f], in_append[f]>>)]
    /\ chunk_i' = [chunk_i EXCEPT ![f] = @ + 1]
    /\ in_append' = [in_append EXCEPT ![f] = 0]
    /\ UNCHANGED <<dtypeVars, mainVars, submitted, queue, status, rows_left, rows_total, batch_lens>>

\* faulty variant: a failing task cancels the work items still queued
ChunkFailCancelling(f) ==
    /\ status[f] = "running"
    /\ rows_left[f] > 0 \/ in_append[f] > 0
    /\ status' = [g \in FileNames |-> IF g = f \/ status[g] = "queued" THEN "failed" ELSE status[g]]
    /\ queue' = <<>>
    /\ in_append' = [in_append EXCEPT ![f] = 0]
    /\ UNCHANGED <<dtypeVars, mainVars, submitted, rows_left, chunk_i, appended, rows_total, batch_lens>>

\* faulty variant: a failing task takes back the chunks it had appended
ChunkFailRollback(f) ==
    /\ status[f] = "running"
    /\ rows_left[f] > 0 \/ in_append[f] > 0
    /\ status' = [status EXCEPT ![f] = "failed"]
    /\ in_append' = [in_append EXCEPT ![f] = 0]
    /\ appended' = [t \in TableUniverse |-> SelectSeq(appended[t], LAMBDA e : e[1] # f)]
    /\ UNCHANGED <<dtypeVars, mainVars, submitted, queue, rows_left, chunk_i, rows_total, batch_lens>>

\* lines 185-197: reading the next chunk raises, or the outstanding to_sql
\* raises and its insert is not kept; the exception ends the task and stays in
\* its Future
ChunkFail(f) ==
    /\ status[f] = "running"
    /\ rows_left[f] > 0 \/ in_append[f] > 0
    /\ status' = [status EXCEPT ![f] = "failed"]
    /\ in_append' = [in_append EXCEPT ![f] = 0]
    /\ UNCHANGED <<dtypeVars, mainVars, submitted, queue, rows_left, chunk_i, appended, rows_total, batch_lens>>

\* line 185: the reader is exhausted, _process_file returns
FinishTask(f) ==
    /\ status[f] = "running"
    /\ in_append[f] = 0
    /\ rows_left[f] = 0
    /\ status' = [status EXCEPT ![f] = "finished"]
    /\ UNCHANGED <<dtypeVars, mainVars, submitted, queue, rows_left, chunk_i, appended, in_append, rows_total, batch_lens>>

Next ==
    \/ ObtainFileNames
    \/ ObtainTableNames
    \/ ConnectOk
    \/ ConnectFail
    \/ ReflectMetadata
    \/ CheckTables
    \/ NoPreScript
    \/ PreScript
    \/ CreatePool
    \/ Submit
    \/ ExitPool
    \/ NoPostScript
    \/ PostScript
    \/ StartTask
    \/ StartTaskFail
    \/ \E f \in FileNames : ProcessChunk(f)
    \/ \E f \in FileNames : AppendReturn(f)
    \/ \E f \in FileNames : ChunkFail(f)
    \/ \E f \in FileNames : FinishTask(f)

Spec == Init /\ [][Next]_vars

\* Threads are scheduled and every call returns or raises: a step that can be
\* taken is taken.
FairSpec == Spec /\ WF_vars(Next)

(* ------------------ _convert_dtype (lines 11-16, 222-225) ------------- *)
\* the keys of _DTYPE_CONVERSION_DICT in insertion order, and its values
SqlTypes == <<"Integer", "Float", "String", "DateTime">>
DtypeOf(sql_type) ==
    CASE sql_type = "Integer" -> "Int64Dtype"
      [] sql_type = "Float" -> "Float64Dtype"
      [] sql_type = "String" -> "StringDtype"
      [] sql_type = "DateTime" -> "DatetimeTZDtype"

\* The objects given as type_: calling type_() with no argument either returns
\* an object, which is an instance of some of the four keys, or raises (the
\* object is not callable, or its constructor needs arguments).
TypeObjects == [callable : BOOLEAN, isa : SUBSET {SqlTypes[i] : i \in 1..Len(SqlTypes)}]

\* lines 223-225: the value of the first key the called object is an instance
\* of, None when the loop ends without a return, TypeError when type_() raises
_convert_dtype(type_) ==
    IF ~type_.callable THEN "TypeError"
    ELSE IF \E i \in 1..Len(SqlTypes) : SqlTypes[i] \in type_.isa
    THEN DtypeOf(SqlTypes[CHOOSE i \in 1..Len(SqlTypes) :
                    SqlTypes[i] \in type_.isa /\ \A j \in 1..(i - 1) : SqlTypes[j] \notin type_.isa])
    ELSE "None"

\* lines 169-174 for one table: the column types are drawn, nothing else has run
InitDtype ==
    /\ pc = "convert"
    /\ error = [exc |-> "none", at |-> "none"]
    /\ data_dir = {}
    /\ dbTables = {TableA}
    /\ user_args = [tables |-> <<>>, execute_first |-> FALSE, execute_last |-> FALSE,
                    dry_run |-> FALSE, threads |-> 1, chunk_size |-> 1]
    /\ table_names = <<>>
    /\ catalog = {TableA}
    /\ reflects = 1
    /\ derived = 0
    /\ tableChecks = 0
    /\ scriptsRun = <<>>
    /\ preDone = FALSE
    /\ postStarted = FALSE
    /\ submitted = <<>>
    /\ queue = <<>>
    /\ status = [f \in FileNames |-> "none"]
    /\ rows_left = [f \in FileNames |-> 0]
    /\ chunk_i = [f \in FileNames |-> 0]
    /\ appended = [t \in TableUniverse |-> <<>>]
    /\ in_append = [f \in FileNames |-> 0]
    /\ rows_total = [f \in FileNames |-> 0]
    /\ batch_lens = [f \in FileNames |-> <<>>]
    /\ sql_type_column_dict \in SeqsUpTo(TypeObjects, MaxColumns)
    /\ dtype_column_dict = [raised |-> FALSE, value |-> <<>>]

\* line 174: the dict comprehension converts every column type; an exception
\* of _convert_dtype leaves the comprehension
ConvertDtypes ==
    /\ pc = "convert"
    /\ pc' = "converted"
    /\ LET cols == sql_type_column_dict
           out == [i \in 1..Len(cols) |-> _convert_dtype(cols[i])] IN
          dtype_column_dict' =
              IF \E i \in 1..Len(cols) : out[i] = "TypeError"
              THEN [raised |-> TRUE, value |-> <<>>]
              ELSE [raised |-> FALSE, value |-> out]
    /\ UNCHANGED <<error, user_args, data_dir, dbTables, resolveVars, scriptVars, poolVars,
                   sql_type_column_dict>>

NextDtype == ConvertDtypes

SpecDtype == InitDtype /\ [][NextDtype]_vars

(* ============================ properties ============================== *)
Terminal(f) == status[f] \in {"finished", "failed"}
Executing(f) == status[f] \in {"running", "finished", "failed"}
Dispatched(f) == status[f] # "none"
NoAppends == \A t \in TableUniverse : appended[t] = <<>>
PastUploading == pc \in {"post", "done"} \/ (pc = "failed" /\ error.at = "post")

\* C1: no load task starts executing before the configured pre-script call has
\* returned, and the post-script call is not entered before every dispatched
\* load task is finished or failed.
PhaseBracketing ==
    /\ (\E f \in FileNames : Executing(f)) => (user_args.execute_first => preDone)
    /\ postStarted => \A f \in FileNames : Dispatched(f) => Terminal(f)

\* C1 witness: both scripts configured, the post-script entered after two tasks ran.
PhaseBracketingWitness ==
    /\ user_args.execute_first /\ preDone /\ postStarted
    /\ Cardinality({f \in FileNames : Terminal(f)}) = 2

\* C2 (as claimed): once a load task has failed, the post-script is not executed.
PostScriptOnlyWithoutFailures ==
    (\E f \in FileNames : status[f] = "failed") => ~postStarted /\ scriptsRun \in {<<>>, <<"first">>}

\* C3 (as claimed): a run in which a load task failed does not go on to the
\* post-script phase or end as done; it ends as failed.
RunFailsWhenTaskFailed ==
    pc \in {"post", "done"} => \A f \in FileNames : status[f] # "failed"

\* C4: when the pre-script raises, the run is failed, no task was dispatched, no
\* batch was appended and the post-script was neither entered nor executed.
PreScriptErrorAborts ==
    (error.exc = "ScriptError" /\ error.at = "pre") =>
        /\ pc = "failed"
        /\ submitted = <<>> /\ queue = <<>>
        /\ \A f \in FileNames : ~Dispatched(f)
        /\ NoAppends
        /\ ~postStarted /\ scriptsRun = <<>>

\* C4 witness: the pre-script raised in a run whose plan holds two files and
\* whose post-script is configured.
PreScriptErrorWitness ==
    /\ error.exc = "ScriptError" /\ error.at = "pre"
    /\ Len(table_names) = 2 /\ user_args.execute_last /\ user_args.threads > 0

\* C5: the step in which a load task fails changes no other task: every sibling
\* keeps its status, its position in its file and its place in the queue; and
\* once the pool is left every dispatched task has run to finished or failed.
FailureIsolation ==
    /\ [][\A f \in FileNames :
            (status[f] # "failed" /\ status'[f] = "failed") =>
                /\ \A g \in FileNames \ {f} :
                      /\ status'[g] = status[g]
                      /\ rows_left'[g] = rows_left[g]
                      /\ chunk_i'[g] = chunk_i[g]
                /\ \/ queue' = queue
                   \/ queue # <<>> /\ Head(queue) = f /\ queue' = Tail(queue)]_vars
    /\ [](PastUploading => \A f \in FileNames : Dispatched(f) => Terminal(f))

\* C5 witness: a task has failed after its first chunk while a sibling waits in
\* the queue.
FailureIsolationWitness ==
    \E f, g \in FileNames :
        /\ status[f] = "failed" /\ chunk_i[f] > 0
        /\ status[g] = "queued"

\* C6: the tasks submitted are the plan entries, in order, each once; the main
\* thread is past the pool only when every entry was submitted and every
\* submitted task is finished or failed.
OneTaskPerEntry ==
    /\ Len(submitted) <= Len(table_names)
    /\ \A i \in 1..Len(submitted) : submitted[i] = table_names[i][1]
    /\ \A i, j \in 1..Len(submitted) : submitted[i] = submitted[j] => i = j
    /\ \A f \in FileNames : Dispatched(f) <=> \E i \in 1..Len(submitted) : submitted[i] = f
    /\ PastUploading =>
          /\ Len(submitted) = Len(table_names)
          /\ \A f \in PlanFiles(table_names) : Terminal(f)

\* C6 witness: a run with two plan entries is past the pool.
OneTaskPerEntryWitness == pc = "done" /\ Len(table_names) = 2 /\ Len(submitted) = 2

\* C7: the number of load tasks running at once never exceeds --threads.
WorkerBound == Cardinality(Running) <= user_args.threads

\* C7 witness: every worker is busy and a task waits in the queue.
WorkerBoundWitness ==
    /\ user_args.threads >= 1
    /\ Cardinality(Running) = user_args.threads
    /\ queue # <<>>

\* C8: metadata is reflected only by the main thread while it builds the plan or
\* runs a script, and never while a load task is queued or running; a running
\* task therefore sees one catalog from its start to its end.
CatalogStableWhileUploading ==
    [][(catalog' # catalog \/ reflects' # reflects) =>
          /\ pc \in {"reflect", "pre", "post"}
          /\ \A f \in FileNames : status[f] \notin {"queued", "running"}]_vars

\* C8 witness: the post-script has changed the catalog after a task appended.
CatalogStableWitness ==
    /\ reflects = 3 /\ TableB \in catalog /\ pc = "done"
    /\ \E f \in FileNames : status[f] = "finished" /\ chunk_i[f] > 0

\* what _process_user_args has validated when the main thread is at pc
FilesChecked == pc # "files"
NamesChecked == pc \notin {"files", "names"} /\ error.at \notin {"files", "names"}
TablesChecked == NamesChecked /\ pc \notin {"connect", "reflect", "check"}
                              /\ error.at \notin {"connect", "reflect", "check"}

\* the outcome of plan validation, stated on the inputs
ValidationOutcome ==
    /\ error.exc = "FileNotFoundError" <=>
          (FilesChecked /\ \E i \in 1..Len(user_args.tables) : user_args.tables[i] \notin data_dir)
    /\ error.exc = "ValueError: no regex match" <=>
          /\ pc \notin {"files", "names"}
          /\ \A i \in 1..Len(user_args.tables) : user_args.tables[i] \in data_dir
          /\ \E i \in 1..Len(user_args.tables) : Search(regex_suffix, user_args.tables[i]) = 0
    /\ error.exc = "ValueError: table not found" =>
          \E i \in 1..Len(table_names) : table_names[i][2] \notin catalog
    /\ TablesChecked => \A i \in 1..Len(table_names) : table_names[i][2] \in catalog
    /\ NamesChecked => PlanFiles(table_names) = {user_args.tables[i] : i \in 1..Len(user_args.tables)}

\* C9: in a dry run no batch is appended and no script is executed, and the
\* plan is validated and fails as the inputs require.
DryRunMutatesNothing ==
    user_args.dry_run =>
        /\ NoAppends
        /\ scriptsRun = <<>>
        /\ ValidationOutcome

\* C9 witness: a dry run with both scripts configured went through two chunks.
DryRunWitness ==
    /\ user_args.dry_run /\ user_args.execute_first /\ user_args.execute_last
    /\ pc = "done"
    /\ \E f \in FileNames : chunk_i[f] = 2

\* C10: a file of the explicit list that is missing makes resolution fail with
\* FileNotFoundError, before any name is derived, any table is tested, any
\* script is run or any task is dispatched.
MissingFileFailsFast ==
    /\ (pc # "files" /\ \E i \in 1..Len(user_args.tables) : user_args.tables[i] \notin data_dir)
          => (pc = "failed" /\ error.exc = "FileNotFoundError")
    /\ error.exc = "FileNotFoundError" =>
          /\ derived = 0 /\ table_names = <<>>
          /\ tableChecks = 0 /\ reflects = 0
          /\ scriptsRun = <<>> /\ ~preDone /\ ~postStarted
          /\ submitted = <<>> /\ \A f \in FileNames : ~Dispatched(f)
          /\ NoAppends

\* C10 witness: the second file of the list is missing, the first one is there.
MissingFileWitness ==
    /\ error.exc = "FileNotFoundError"
    /\ Len(user_args.tables) = 2
    /\ user_args.tables[1] \in data_dir /\ user_args.tables[2] \notin data_dir

\* _process_user_args has returned its plan to _main (line 26)
ResolutionReturned == pc = "pre"
\* _process_user_args has raised
ResolutionFailed == pc = "failed" /\ error.at \in {"files", "names", "connect", "reflect", "check"}
NothingTransferred ==
    /\ scriptsRun = <<>> /\ ~preDone /\ ~postStarted
    /\ submitted = <<>> /\ queue = <<>>
    /\ \A f \in FileNames : ~Dispatched(f)
    /\ NoAppends

\* C11: a plan returned by resolution has only existing files as keys and only
\* tables of the catalog as values, one entry for every file to process; when
\* resolution fails no plan is handed on (nothing is dispatched from it).
ReturnedPlanIsValid ==
    /\ ResolutionReturned =>
          /\ \A i \in 1..Len(table_names) :
                /\ table_names[i][1] \in data_dir
                /\ table_names[i][2] \in catalog
                /\ table_names[i][2] \in dbTables
          /\ PlanFiles(table_names) = {user_args.tables[i] : i \in 1..Len(user_args.tables)}
          /\ \A i, j \in 1..Len(table_names) : table_names[i][1] = table_names[j][1] => i = j
    /\ ResolutionFailed => submitted = <<>> /\ \A f \in FileNames : ~Dispatched(f)
    /\ (error.exc = "ValueError: table not found") => ResolutionFailed

\* C11 witness: a plan of two files was returned.
ReturnedPlanWitness == ResolutionReturned /\ Len(table_names) = 2 /\ Len(user_args.tables) = 2

\* C12: when plan resolution, the connection test or the table check fails, no
\* script has run, no task was dispatched and no batch was appended; and
\* whatever transfers data does so after the whole plan was validated.
NoTransferWhenMisconfigured ==
    /\ error.at \in {"files", "names", "connect", "reflect", "check"} =>
          pc = "failed" /\ NothingTransferred
    /\ ~NothingTransferred =>
          /\ TablesChecked
          /\ \A i \in 1..Len(user_args.tables) :
                /\ user_args.tables[i] \in data_dir
                /\ Search(regex_suffix, user_args.tables[i]) # 0

\* C12 witness: the table check failed in a run that was set to run scripts and upload.
NoTransferWitness ==
    /\ error.exc = "ValueError: table not found" /\ error.at = "check"
    /\ user_args.execute_first /\ ~user_args.dry_run /\ user_args.threads > 0
    /\ Len(table_names) = 2

\* t is file name f cut before the first place where the pattern p occurs
IsPrefixBeforeFirstMatch(t, p, f) ==
    /\ Len(t) + Len(p) <= Len(f)
    /\ \A k \in 1..Len(t) : t[k] = f[k]
    /\ \A k \in 1..Len(p) : f[Len(t) + k] = p[k]
    /\ \A j \in 1..Len(t) : \E k \in 1..Len(p) : j + k - 1 > Len(f) \/ f[j + k - 1] # p[k]
Occurs(p, f) == \E j \in 1..Len(f) : j + Len(p) - 1 <= Len(f) /\ \A k \in 1..Len(p) : f[j + k - 1] = p[k]

\* C13: every table name of the plan is its file name cut before the first
\* match of the pattern; a file name without a match fails the resolution with
\* no plan, and only such a file name does.
TableNameIsPrefix ==
    /\ \A i \in 1..Len(table_names) :
          IsPrefixBeforeFirstMatch(table_names[i][2], regex_suffix, table_names[i][1])
    /\ NamesChecked => \A i \in 1..Len(user_args.tables) : Occurs(regex_suffix, user_args.tables[i])
    /\ error.exc = "ValueError: no regex match" =>
          /\ pc = "failed" /\ table_names = <<>> /\ NothingTransferred
          /\ \E i \in 1..Len(user_args.tables) : ~Occurs(regex_suffix, user_args.tables[i])
          /\ derived < Len(user_args.tables)
          /\ \A i \in 1..derived : Occurs(regex_suffix, user_args.tables[i])

\* C13 witness: a file name with two matches got the prefix before the first one.
TableNameWitness ==
    /\ pc = "connect"
    /\ \E i \in 1..Len(table_names) : table_names[i] = <<FileAA, TableA>>

\* the appends a file's task made to table t, in the order they were made
AppendsIn(t, f) == SelectSeq(appended[t], LAMBDA e : e[1] = f)
IsPrefixOf(a, b) == Len(a) <= Len(b) /\ \A k \in 1..Len(a) : a[k] = b[k]
RECURSIVE SumSeq(_)
SumSeq(q) == IF q = <<>> THEN 0 ELSE Head(q) + SumSeq(Tail(q))

\* C14: the appends of one file are its chunks 0, 1, 2, ... in this order, all
\* in the table of its plan entry; a task reads and sends its next chunk only
\* when no to_sql call of its own is outstanding and every earlier chunk of the
\* file is in the table.
BatchesInOrder ==
    /\ [](\A f \in FileNames : \A t \in TableUniverse :
            /\ \A k \in 1..Len(AppendsIn(t, f)) : AppendsIn(t, f)[k][2] = k - 1
            /\ AppendsIn(t, f) # <<>> => f \in PlanFiles(table_names) /\ t = PlanTable(table_names, f))
    /\ [][\A f \in FileNames :
            Len(batch_lens'[f]) > Len(batch_lens[f]) =>
                /\ in_append[f] = 0
                /\ Len(batch_lens[f]) = chunk_i[f]
                /\ user_args.dry_run \/
                      Len(AppendsIn(PlanTable(table_names, f), f)) = chunk_i[f]]_vars

\* C14 witness: chunk 0 of another file lies between chunks 0 and 1 of a file.
BatchesInOrderWitness ==
    /\ Len(appended[TableA]) = 3
    /\ appended[TableA][1][1] = FileA /\ appended[TableA][1][2] = 0
    /\ appended[TableA][2][1] = FileAA /\ appended[TableA][2][2] = 0
    /\ appended[TableA][3][1] = FileA /\ appended[TableA][3][2] = 1

PrefixOnlyPartialUpload ==
    /\ [](\A f \in FileNames : (status[f] = "failed" /\ ~user_args.dry_run) =>
            \A t \in TableUniverse :
                AppendsIn(t, f) =
                    IF f \in PlanFiles(table_names) /\ t = PlanTable(table_names, f)
                    THEN [k \in 1..chunk_i[f] |-> <<f, k - 1, batch_lens[f][k]>>]
                    ELSE <<>>)
    /\ [][/\ \A t \in TableUniverse : IsPrefixOf(appended[t], appended'[t])
          /\ \A f \in FileNames :
                /\ status[f] = "failed" =>
                      status'[f] = "failed" /\ \A t \in TableUniverse : AppendsIn(t, f)' = AppendsIn(t, f)
                /\ (status[f] # "failed" /\ status'[f] = "failed") => appended' = appended]_vars

\* C19 witness: a task failed in the to_sql of its chunk 1, its chunk 0 stays in
\* the table next to the chunks of a task that finished.
PrefixOnlyWitness ==
    /\ ~user_args.dry_run
    /\ status[FileA] = "failed" /\ chunk_i[FileA] = 1 /\ Len(batch_lens[FileA]) = 2
    /\ status[FileAA] = "finished" /\ chunk_i[FileAA] = 2
    /\ Len(appended[TableA]) = 3

\* the catalog was built (line 144 has run)
CatalogBuilt == pc \notin {"files", "names", "connect", "reflect"}
                /\ error.at \notin {"files", "names", "connect", "reflect"}
\* calls of _execute_sql that have returned
ScriptCallsReturned ==
    (IF user_args.execute_first /\ preDone THEN 1 ELSE 0)
    + (IF user_args.execute_last /\ pc = "done" THEN 1 ELSE 0)

\* C17 (as claimed): every returned _execute_sql call, of a script executed or
\* of a script skipped in a dry run, has reflected the catalog once more.
RefreshAfterEveryScriptPhase ==
    CatalogBuilt => reflects = 1 + ScriptCallsReturned

\* C17 (amended): in a real run every returned _execute_sql call has executed
\* its script and then reflected the catalog, so the catalog holds every table
\* of the database when the next phase begins, and the reflect after the
\* pre-script is over before any load task runs; in a dry run the call
\* reflects nothing.
RefreshAfterExecutedScript ==
    /\ CatalogBuilt =>
          /\ reflects = 1 + Len(scriptsRun)
          /\ dbTables \subseteq catalog
          /\ ~user_args.dry_run => Len(scriptsRun) = ScriptCallsReturned
          /\ user_args.dry_run => reflects = 1
    /\ (~user_args.dry_run /\ user_args.execute_first /\ \E f \in FileNames : Dispatched(f)) =>
          /\ reflects >= 2
          /\ scriptsRun[1] = "first"

\* C17 witness: a real run whose pre-script created table b has a task running.
RefreshWitness ==
    /\ ~user_args.dry_run /\ user_args.execute_first /\ preDone
    /\ reflects = 2 /\ catalog = {TableA, TableB}
    /\ \E f \in FileNames : status[f] = "running"

\* C20: in a dry run no step after the catalog was built changes the catalog,
\* reflects again, executes a script or changes the database; the catalog stays
\* the one reflected during argument processing, whatever scripts are configured.
DryRunCatalogFrame ==
    /\ [][(user_args.dry_run /\ pc # "reflect") =>
             /\ catalog' = catalog /\ reflects' = reflects
             /\ dbTables' = dbTables /\ scriptsRun' = scriptsRun]_vars
    /\ []((user_args.dry_run /\ CatalogBuilt) => reflects = 1 /\ catalog = dbTables)

\* C20 witness: a dry run with both scripts configured has ended, the catalog is
\* the one reflected at the start.
DryRunFrameWitness ==
    /\ user_args.dry_run /\ user_args.execute_first /\ user_args.execute_last
    /\ preDone /\ postStarted /\ pc = "done"
    /\ reflects = 1 /\ catalog = {TableA} /\ Len(table_names) = 2

\* C16 (as claimed): the conversion of a table's column types never raises and
\* gives every column the dtype of its class, or None for a class outside the
\* four recognized ones.
ConvertDtypeIsTotal ==
    pc = "converted" =>
        /\ ~dtype_column_dict.raised
        /\ Len(dtype_column_dict.value) = Len(sql_type_column_dict)
        /\ \A i \in 1..Len(sql_type_column_dict) :
              dtype_column_dict.value[i] \in {"Int64Dtype", "Float64Dtype", "StringDtype", "DatetimeTZDtype", "None"}

\* what is left to do: the position of the main thread, the plan entries not
\* yet submitted, and for every task its remaining rows and outstanding call
PcRank ==
    CASE pc = "files" -> 9 [] pc = "names" -> 8 [] pc = "connect" -> 7
      [] pc = "reflect" -> 6 [] pc = "check" -> 5 [] pc = "pre" -> 4
      [] pc = "pool" -> 3 [] pc = "submit" -> 2 [] pc = "post" -> 1
      [] OTHER -> 0
TaskRank(f) ==
    CASE status[f] = "none" -> 2 * MaxRows + 4
      [] status[f] = "queued" -> 2 * MaxRows + 3
      [] status[f] = "running" -> 2 * rows_left[f] + (IF in_append[f] > 0 THEN 1 ELSE 0) + 1
      [] OTHER -> 0
RECURSIVE SumRanks(_)
SumRanks(S) == IF S = {} THEN 0 ELSE LET f == CHOOSE x \in S : TRUE IN TaskRank(f) + SumRanks(S \ {f})
Measure == 100 * PcRank + SumRanks(FileNames)
Terminated == pc \in {"done", "failed"} /\ \A f \in FileNames : Dispatched(f) => Terminal(f)

\* C18: under fair scheduling every run ends as done or failed with every
\* dispatched task finished or failed: a state in which no step can be taken
\* is such an end, every step lowers a natural-valued measure (so no run takes
\* steps for ever), and no step leaves done, failed, finished.
Termination ==
    /\ [](Terminated \/ ENABLED Next)
    /\ [][/\ Measure' < Measure /\ Measure' >= 0
          /\ pc \in {"done", "failed"} => pc' = pc
          /\ \A f \in FileNames : Terminal(f) => status'[f] = status[f]]_vars

\* C18 witness: a run has ended as done with one task finished and one failed.
TerminationWitness ==
    /\ pc = "done"
    /\ status[FileA] = "finished" /\ chunk_i[FileA] = 2
    /\ status[FileAA] = "failed"

====
